---- MODULE Spec2Model ----
(***************************************************************************)
(* A model of the address book bot: classes.py (Field/Phone/Birthday,      *)
(* Record, AddressBook, Contact) and the command loop of main.py.          *)
(*                                                                         *)
(* Python strings are sequences of one-character strings, so that length,  *)
(* isdigit, strip, lower, strptime and strftime are computed and not       *)
(* assumed.  A dict is a sequence of its values in insertion order (each   *)
(* Record carries its key, record.name.value).  None is the empty          *)
(* sequence where a value may be absent (find), and a raised exception is  *)
(* the field exc of an operation's outcome.                                *)
(***************************************************************************)
EXTENDS Integers, Sequences, FiniteSets, TLC

VARIABLES data, pc, last, today, typed

vars == <<data, pc, last, today, typed>>

(***************************************************************************)
(* Bounds of the model.                                                    *)
(***************************************************************************)
\* the longest string typed at the Phone constructor (SpecPhone)
MaxLen == 13
\* the most phones the directory holds, over all its records (Spec)
MaxPhones == 2
\* the number of days after FirstToday that today ranges over (SpecBirthdays)
NumDays == 100

(***************************************************************************)
(* Characters and strings.                                                 *)
(***************************************************************************)
DigitChars == <<"0", "1", "2", "3", "4", "5", "6", "7", "8", "9">>

Digits == {DigitChars[i] : i \in 1..10}

NonZeroDigits == Digits \ {"0"}

DigitVal(c) == (CHOOSE i \in 1..10 : DigitChars[i] = c) - 1

Rep(c, n) == [i \in 1..n |-> c]

\* str.isdigit(): every character is a digit and there is at least one
isdigit(s) == Len(s) > 0 /\ \A i \in 1..Len(s) : s[i] \in Digits

\* str.strip(): leading and trailing blanks removed
RECURSIVE strip(_)
strip(s) ==
    IF s = <<>> THEN s
    ELSE IF Head(s) = " " THEN strip(Tail(s))
    ELSE IF s[Len(s)] = " " THEN strip(SubSeq(s, 1, Len(s) - 1))
    ELSE s

UpperChars == <<"A", "B", "C", "D", "E", "G", "H", "I", "L", "N", "O", "P", "S", "T", "W", "X", "Y">>

LowerChars == <<"a", "b", "c", "d", "e", "g", "h", "i", "l", "n", "o", "p", "s", "t", "w", "x", "y">>

\* str.lower(), on the letters the command inputs use
lower(s) ==
    [i \in 1..Len(s) |->
        IF \E k \in 1..Len(UpperChars) : UpperChars[k] = s[i]
        THEN LowerChars[CHOOSE k \in 1..Len(UpperChars) : UpperChars[k] = s[i]]
        ELSE s[i]]

\* int(s) of a digit string
RECURSIVE ToInt(_)
ToInt(s) ==
    IF s = <<>> THEN 0
    ELSE ToInt(SubSeq(s, 1, Len(s) - 1)) * 10 + DigitVal(s[Len(s)])

\* the fields of s between the separators sep
RECURSIVE SplitOn(_, _)
SplitOn(s, sep) ==
    IF \A i \in 1..Len(s) : s[i] # sep THEN <<s>>
    ELSE LET k == CHOOSE i \in 1..Len(s) :
                     s[i] = sep /\ \A j \in 1..(i - 1) : s[j] # sep
         IN  <<SubSeq(s, 1, k - 1)>> \o SplitOn(SubSeq(s, k + 1, Len(s)), sep)

\* n as w digits, zero-padded (%d, %m: 2; %Y: 4)
RECURSIVE Pad(_, _)
Pad(n, w) ==
    IF w = 0 THEN <<>> ELSE Pad(n \div 10, w - 1) \o <<DigitChars[(n % 10) + 1]>>

(***************************************************************************)
(* Field values: Phone.                                                    *)
(***************************************************************************)
MinPhoneLen == 10

MaxPhoneLen == 12

Phone_NoUpperBound(value) ==
    IF Len(value) < MinPhoneLen \/ ~isdigit(value)
    THEN [exc |-> "ValueError", value |-> <<>>]
    ELSE [exc |-> "none", value |-> value]

\* Phone.__init__: raises ValueError or stores the value
Phone(value) ==
    IF (Len(value) < MinPhoneLen \/ Len(value) > MaxPhoneLen) \/ ~isdigit(value)
    THEN [exc |-> "ValueError", value |-> <<>>]
    ELSE [exc |-> "none", value |-> value]

(***************************************************************************)
(* The calendar of datetime.date.                                          *)
(***************************************************************************)
NoDate == [y |-> 0, m |-> 0, d |-> 0]

IsLeap(y) == (y % 4 = 0) /\ ((y % 100 # 0) \/ (y % 400 = 0))

DaysInMonth(y, m) ==
    IF m = 2 THEN (IF IsLeap(y) THEN 29 ELSE 28)
    ELSE IF m \in {4, 6, 9, 11} THEN 30 ELSE 31

\* date(y, m, d) is a date
ValidDate(y, m, d) ==
    /\ y >= 1 /\ y <= 9999
    /\ m >= 1 /\ m <= 12
    /\ d >= 1 /\ d <= DaysInMonth(y, m)

RECURSIVE DaysBeforeMonth(_, _)
DaysBeforeMonth(y, m) ==
    IF m = 1 THEN 0 ELSE DaysBeforeMonth(y, m - 1) + DaysInMonth(y, m - 1)

DaysBeforeYear(y) ==
    (y - 1) * 365 + ((y - 1) \div 4) - ((y - 1) \div 100) + ((y - 1) \div 400)

\* date.toordinal()
ToOrdinal(dt) == DaysBeforeYear(dt.y) + DaysBeforeMonth(dt.y, dt.m) + dt.d

\* date.weekday(): Monday is 0
weekday(dt) == (ToOrdinal(dt) + 6) % 7

\* date < date, date <= date
DateLT(a, b) ==
    \/ a.y < b.y
    \/ a.y = b.y /\ a.m < b.m
    \/ a.y = b.y /\ a.m = b.m /\ a.d < b.d

DateLE(a, b) == a = b \/ DateLT(a, b)

NextDay(dt) ==
    IF dt.d < DaysInMonth(dt.y, dt.m) THEN [dt EXCEPT !.d = @ + 1]
    ELSE IF dt.m < 12 THEN [y |-> dt.y, m |-> dt.m + 1, d |-> 1]
    ELSE [y |-> dt.y + 1, m |-> 1, d |-> 1]

\* date + timedelta(days=n)
RECURSIVE AddDays(_, _)
AddDays(dt, n) == IF n = 0 THEN dt ELSE AddDays(NextDay(dt), n - 1)

\* date.replace(year=y): ValueError when the day does not exist in year y
replace_year(dt, y) ==
    IF ValidDate(y, dt.m, dt.d)
    THEN [exc |-> "none", date |-> [dt EXCEPT !.y = y]]
    ELSE [exc |-> "ValueError", date |-> NoDate]

WeekdayNames == <<"Monday", "Tuesday", "Wednesday", "Thursday", "Friday", "Saturday", "Sunday">>

\* date.strftime("%A")
DayName(dt) == WeekdayNames[weekday(dt) + 1]

\* date.strftime("%d.%m.%Y")
strftime(dt) == Pad(dt.d, 2) \o <<".">> \o Pad(dt.m, 2) \o <<".">> \o Pad(dt.y, 4)

(***************************************************************************)
(* datetime.strptime(s, "%d.%m.%Y").date(): the directive patterns of      *)
(* strptime, then the construction of the date.                            *)
(***************************************************************************)
\* %d: 3[0-1] | [1-2]\d | 0[1-9] | [1-9] | " "[1-9]
MatchDay(f) ==
    \/ Len(f) = 2 /\ f[1] = "3" /\ f[2] \in {"0", "1"}
    \/ Len(f) = 2 /\ f[1] \in {"1", "2"} /\ f[2] \in Digits
    \/ Len(f) = 2 /\ f[1] \in {"0", " "} /\ f[2] \in NonZeroDigits
    \/ Len(f) = 1 /\ f[1] \in NonZeroDigits

\* %m: 1[0-2] | 0[1-9] | [1-9]
MatchMonth(f) ==
    \/ Len(f) = 2 /\ f[1] = "1" /\ f[2] \in {"0", "1", "2"}
    \/ Len(f) = 2 /\ f[1] = "0" /\ f[2] \in NonZeroDigits
    \/ Len(f) = 1 /\ f[1] \in NonZeroDigits

\* %Y: \d\d\d\d
MatchYear(f) == Len(f) = 4 /\ isdigit(f)

strptime(s) ==
    LET f == SplitOn(s, ".")
    IN  IF Len(f) = 3 /\ MatchDay(f[1]) /\ MatchMonth(f[2]) /\ MatchYear(f[3])
        THEN LET d == ToInt(strip(f[1]))
                 m == ToInt(f[2])
                 y == ToInt(f[3])
             IN  IF ValidDate(y, m, d)
                 THEN [exc |-> "none", date |-> [y |-> y, m |-> m, d |-> d]]
                 ELSE [exc |-> "ValueError", date |-> NoDate]
        ELSE [exc |-> "ValueError", date |-> NoDate]

(***************************************************************************)
(* Field values: Birthday.  record.birthday is None (set = FALSE) or a     *)
(* Birthday object, whose date is None (hasDate = FALSE) or a date.        *)
(***************************************************************************)
NoBirthday == [set |-> FALSE, value |-> <<>>, hasDate |-> FALSE, date |-> NoDate]

\* Birthday.__init__
Birthday(date_str) ==
    IF date_str # <<>>
    THEN LET p == strptime(date_str)
         IN  IF p.exc = "none"
             THEN [exc |-> "none",
                   obj |-> [set |-> TRUE, value |-> date_str, hasDate |-> TRUE, date |-> p.date]]
             ELSE [exc |-> "ValueError", obj |-> NoBirthday]
    ELSE [exc |-> "none",
          obj |-> [set |-> TRUE, value |-> date_str, hasDate |-> FALSE, date |-> NoDate]]

NoBirthdaySet == <<"N", "o", " ", "b", "i", "r", "t", "h", "d", "a", "y", " ", "s", "e", "t">>

\* Birthday.__str__
BirthdayStr(b) == IF b.hasDate THEN strftime(b.date) ELSE NoBirthdaySet

(***************************************************************************)
(* Record.                                                                 *)
(***************************************************************************)
\* Record.__init__
Record(name) == [name |-> name, phones |-> <<>>, birthday |-> NoBirthday]

\* Record.add_phone: Phone(phone) may raise; otherwise the value is appended
add_phone(rec, phone) ==
    LET p == Phone(phone)
    IN  IF p.exc # "none" THEN [exc |-> p.exc, rec |-> rec]
        ELSE [exc |-> "none", rec |-> [rec EXCEPT !.phones = Append(@, p.value)]]

\* Record.delete_phone
delete_phone(rec, phone) ==
    LET Keep(p) == p # phone
    IN  [rec EXCEPT !.phones = SelectSeq(@, Keep)]

\* Record.edit_phone: every phone equal to old_phone takes the value new_phone
edit_phone(rec, old_phone, new_phone) ==
    [rec EXCEPT !.phones =
        [i \in 1..Len(@) |-> IF @[i] = old_phone THEN new_phone ELSE @[i]]]

\* Record.add_birthday: Birthday(birthday) may raise; otherwise it is stored
add_birthday(rec, birthday) ==
    LET b == Birthday(birthday)
    IN  IF b.exc # "none" THEN [exc |-> b.exc, rec |-> rec]
        ELSE [exc |-> "none", rec |-> [rec EXCEPT !.birthday = b.obj]]

NotSpecified == <<"N", "o", "t", " ", "s", "p", "e", "c", "i", "f", "i", "e", "d">>

\* Record.__str__: the parts of the rendered line
RecordStr(rec) ==
    [name |-> rec.name,
     phones |-> rec.phones,
     birthday |-> IF rec.birthday.set THEN BirthdayStr(rec.birthday) ELSE NotSpecified]

(***************************************************************************)
(* AddressBook: d is self.data, the records in insertion order.            *)
(***************************************************************************)
IndexOf(d, name) ==
    IF \E i \in 1..Len(d) : d[i].name = name
    THEN CHOOSE i \in 1..Len(d) : d[i].name = name
    ELSE 0

Keys(d) == {d[i].name : i \in 1..Len(d)}

\* AddressBook.add_record: self.data[record.name.value] = record
add_record(d, record) ==
    IF IndexOf(d, record.name) > 0
    THEN [d EXCEPT ![IndexOf(d, record.name)] = record]
    ELSE Append(d, record)

delete_record_First(d, name) == IF d = <<>> THEN d ELSE Tail(d)

\* AddressBook.delete_record
delete_record(d, name) ==
    LET Keep(r) == r.name # name
    IN  IF IndexOf(d, name) > 0 THEN SelectSeq(d, Keep) ELSE d

\* AddressBook.find: <<record>>, or <<>> for None
find(d, name) == IF IndexOf(d, name) > 0 THEN <<d[IndexOf(d, name)]>> ELSE <<>>

\* the record stored under name mutated in place
Store(d, name, rec) == [d EXCEPT ![IndexOf(d, name)] = rec]

EmptyBuckets == [w \in {WeekdayNames[i] : i \in 1..7} |-> <<>>]

\* one iteration of the loop of get_birthdays_per_week over record
BirthdayStep(acc, record, now) ==
    IF acc.exc # "none" \/ ~record.birthday.set THEN acc
    ELSE IF ~record.birthday.hasDate THEN [acc EXCEPT !.exc = "AttributeError"]
    ELSE LET r1 == replace_year(record.birthday.date, now.y)
         IN  IF r1.exc # "none" THEN [acc EXCEPT !.exc = r1.exc]
             ELSE LET r2 == IF DateLT(r1.date, now)
                            THEN replace_year(r1.date, now.y + 1)
                            ELSE r1
                  IN  IF r2.exc # "none" THEN [acc EXCEPT !.exc = r2.exc]
                      ELSE IF DateLE(now, r2.date) /\ DateLE(r2.date, AddDays(now, 7))
                           THEN LET w == IF weekday(r2.date) >= 5 THEN "Monday"
                                         ELSE DayName(r2.date)
                                IN  [acc EXCEPT !.buckets[w] = Append(@, record.name)]
                           ELSE acc

RECURSIVE BirthdayLoop(_, _, _, _)
BirthdayLoop(acc, d, i, now) ==
    IF i > Len(d) THEN acc ELSE BirthdayLoop(BirthdayStep(acc, d[i], now), d, i + 1, now)

\* AddressBook.get_birthdays_per_week: exc, or the dict weekday -> names
get_birthdays_per_week(d, now) ==
    LET acc == BirthdayLoop([exc |-> "none", buckets |-> EmptyBuckets], d, 1, now)
    IN  IF acc.exc # "none" THEN [exc |-> acc.exc, ret |-> <<>>]
        ELSE [exc |-> "none",
              ret |-> [w \in {x \in DOMAIN acc.buckets : acc.buckets[x] # <<>>} |->
                          acc.buckets[w]]]

\* AddressBook.__str__
BookStr(d) == [i \in 1..Len(d) |-> RecordStr(d[i])]

(***************************************************************************)
(* Contact: each method gives the directory after it, the exception that   *)
(* left it (or "none"), what it printed, and what it computed.             *)
(***************************************************************************)
NoRet == <<>>

Msg(text, name, value) == [text |-> text, name |-> name, value |-> value]

NoMsg == Msg("", <<>>, <<>>)

Outcome(d, exc, out, ret) == [data |-> d, exc |-> exc, out |-> out, ret |-> ret]

Raised(d, exc) == Outcome(d, exc, NoMsg, NoRet)

add_contact_RecordFirst(d, name, phone) ==
    LET r == add_phone(Record(name), phone)
    IN  IF r.exc # "none" THEN Raised(add_record(d, Record(name)), r.exc)
        ELSE Outcome(add_record(d, r.rec), "none",
                     Msg("Contact added successfully.", <<>>, <<>>), NoRet)

add_contact_Merge(d, name, phone) ==
    LET old == find(d, name)
        r == add_phone(IF old # <<>> THEN old[1] ELSE Record(name), phone)
    IN  IF r.exc # "none" THEN Raised(d, r.exc)
        ELSE Outcome(add_record(d, r.rec), "none",
                     Msg("Contact added successfully.", <<>>, <<>>), NoRet)

\* Contact.add_contact
add_contact(d, name, phone) ==
    LET r == add_phone(Record(name), phone)
    IN  IF r.exc # "none" THEN Raised(d, r.exc)
        ELSE Outcome(add_record(d, r.rec), "none",
                     Msg("Contact added successfully.", <<>>, <<>>), NoRet)

\* Contact.change_phone
change_phone(d, name, new_phone) ==
    LET record == find(d, name)
    IN  IF record # <<>>
        THEN IF record[1].phones = <<>> THEN Raised(d, "IndexError")
             ELSE Outcome(Store(d, name, edit_phone(record[1], record[1].phones[1], new_phone)),
                          "none", Msg("Phone number changed successfully.", <<>>, <<>>), NoRet)
        ELSE Outcome(d, "none", Msg("Contact not found.", <<>>, <<>>), NoRet)

\* Contact.show_phone
show_phone(d, name) ==
    LET record == find(d, name)
    IN  IF record # <<>>
        THEN IF record[1].phones = <<>> THEN Raised(d, "IndexError")
             ELSE Outcome(d, "none", Msg("Phone number for", name, record[1].phones[1]), NoRet)
        ELSE Outcome(d, "none", Msg("Contact not found.", <<>>, <<>>), NoRet)

contact_add_birthday_ValidateFirst(d, name, birthday) ==
    LET b == Birthday(birthday)
        record == find(d, name)
    IN  IF b.exc # "none" THEN Raised(d, b.exc)
        ELSE IF record # <<>>
        THEN Outcome(Store(d, name, [record[1] EXCEPT !.birthday = b.obj]), "none",
                     Msg("Birthday added successfully.", <<>>, <<>>), NoRet)
        ELSE Outcome(d, "none", Msg("Contact not found.", <<>>, <<>>), NoRet)

\* Contact.add_birthday
contact_add_birthday(d, name, birthday) ==
    LET record == find(d, name)
    IN  IF record # <<>>
        THEN LET r == add_birthday(record[1], birthday)
             IN  IF r.exc # "none" THEN Raised(d, r.exc)
                 ELSE Outcome(Store(d, name, r.rec), "none",
                              Msg("Birthday added successfully.", <<>>, <<>>), NoRet)
        ELSE Outcome(d, "none", Msg("Contact not found.", <<>>, <<>>), NoRet)

\* Contact.show_birthday
show_birthday(d, name) ==
    LET record == find(d, name)
    IN  IF record # <<>> /\ record[1].birthday.set
        THEN Outcome(d, "none", Msg("Birthday for", name, BirthdayStr(record[1].birthday)), NoRet)
        ELSE IF record # <<>> /\ ~record[1].birthday.set
        THEN Outcome(d, "none", Msg("No birthday specified for", name, <<>>), NoRet)
        ELSE Outcome(d, "none", Msg("Contact not found.", <<>>, <<>>), NoRet)

\* Contact.birthdays_this_week
birthdays_this_week(d, now) ==
    LET r == get_birthdays_per_week(d, now)
    IN  IF r.exc # "none" THEN Raised(d, r.exc)
        ELSE IF DOMAIN r.ret # {}
        THEN Outcome(d, "none", Msg("Birthdays for the next week:", <<>>, <<>>), r.ret)
        ELSE Outcome(d, "none", Msg("No birthdays for the next week.", <<>>, <<>>), r.ret)

\* Contact.list_all_contacts
list_all_contacts(d) ==
    Outcome(d, "none", Msg("All contacts in the address book:", <<>>, <<>>), BookStr(d))

\* Contact.hello
hello(d) == Outcome(d, "none", Msg("Hello! I'm your address book bot.", <<>>, <<>>), NoRet)

(***************************************************************************)
(* Inputs.                                                                 *)
(***************************************************************************)
Ann == <<"A", "n", "n">>

Bob == <<"B", "o", "b">>

Names == {Ann, Bob}

PhoneA == Rep("1", MinPhoneLen)

PhoneB == Rep("2", MaxPhoneLen)

PhoneShort == Rep("3", MinPhoneLen - 1)

PhoneAlpha == <<"0", "5", "0", "-", "1", "2", "3", "4", "5", "6", "7">>

ValidPhones == {PhoneA, PhoneB}

PhoneInputs == ValidPhones \cup {PhoneShort}

LeapDay == <<"2", "9", ".", "0", "2", ".", "2", "0", "2", "4">>

NoLeapDay == <<"2", "9", ".", "0", "2", ".", "2", "0", "2", "3">>

Feb31 == <<"3", "1", ".", "0", "2", ".", "2", "0", "2", "4">>

Unpadded == <<"1", ".", "3", ".", "2", "0", "2", "4">>

BirthdayInputs == {LeapDay, Feb31}

Date(y, m, d) == [y |-> y, m |-> m, d |-> d]

Idle == [op |-> "none", cmd |-> <<>>, name |-> <<>>, arg |-> <<>>, arg2 |-> <<>>,
         had |-> FALSE, exc |-> "none", out |-> NoMsg, ret |-> NoRet]

\* the record of the call op(name, arg, arg2), of whether the directory held
\* a record for name when it was made, and of its outcome r
Called(op, name, arg, arg2, r) ==
    [op |-> op, cmd |-> <<>>, name |-> name, arg |-> arg, arg2 |-> arg2,
     had |-> name \in Keys(data), exc |-> r.exc, out |-> r.out, ret |-> r.ret]

RECURSIVE TotalPhones(_)
TotalPhones(d) == IF d = <<>> THEN 0 ELSE Len(Head(d).phones) + TotalPhones(Tail(d))

(***************************************************************************)
(* Spec: a client of the classes calls the methods of Contact, of its      *)
(* AddressBook and of the Records the book holds, in any order.            *)
(***************************************************************************)
Init ==
    /\ data = <<>>
    /\ pc = "loop"
    /\ last = Idle
    /\ today = Date(2024, 2, 26)
    /\ typed = <<>>

\* the call leaves the directory as r.data
Call(op, name, arg, arg2, r) ==
    /\ TotalPhones(r.data) <= MaxPhones
    /\ data' = r.data
    /\ last' = Called(op, name, arg, arg2, r)
    /\ UNCHANGED <<pc, today, typed>>

AddContact ==
    \E n \in Names, p \in PhoneInputs :
        LET r == add_contact(data, n, p)
        IN  Call("add_contact", n, p, <<>>, r)

ChangePhone ==
    \E n \in Names, p \in PhoneInputs :
        LET r == change_phone(data, n, p)
        IN  Call("change_phone", n, p, <<>>, r)

ShowPhone ==
    \E n \in Names :
        LET r == show_phone(data, n)
        IN  Call("show_phone", n, <<>>, <<>>, r)

AddBirthday ==
    \E n \in Names, b \in BirthdayInputs :
        LET r == contact_add_birthday(data, n, b)
        IN  Call("add_birthday", n, b, <<>>, r)

ShowBirthday ==
    \E n \in Names :
        LET r == show_birthday(data, n)
        IN  Call("show_birthday", n, <<>>, <<>>, r)

\* address_book.add_record(Record(n))
AddRecord ==
    \E n \in Names :
        LET d == add_record(data, Record(n))
        IN  Call("add_record", n, <<>>, <<>>, Outcome(d, "none", NoMsg, NoRet))

\* address_book.delete_record(n)
DeleteRecord ==
    \E n \in Names :
        LET d == delete_record(data, n)
        IN  Call("delete_record", n, <<>>, <<>>, Outcome(d, "none", NoMsg, NoRet))

\* address_book.find(n)
Find ==
    \E n \in Names :
        LET record == find(data, n)
        IN  Call("find", n, <<>>, <<>>, Outcome(data, "none", NoMsg, record))

\* address_book.find(n).add_phone(p)
RecordAddPhone ==
    \E n \in Keys(data), p \in PhoneInputs :
        LET r == add_phone(find(data, n)[1], p)
        IN  Call("add_phone", n, p, <<>>, Outcome(Store(data, n, r.rec), r.exc, NoMsg, NoRet))

\* address_book.find(n).delete_phone(p)
RecordDeletePhone ==
    \E n \in Keys(data), p \in PhoneInputs :
        LET rec == delete_phone(find(data, n)[1], p)
        IN  Call("delete_phone", n, p, <<>>, Outcome(Store(data, n, rec), "none", NoMsg, NoRet))

\* address_book.find(n).edit_phone(old, new)
RecordEditPhone ==
    \E n \in Keys(data), old \in PhoneInputs, new \in PhoneInputs :
        LET rec == edit_phone(find(data, n)[1], old, new)
        IN  Call("edit_phone", n, old, new, Outcome(Store(data, n, rec), "none", NoMsg, NoRet))

Next ==
    \/ AddContact
    \/ ChangePhone
    \/ ShowPhone
    \/ AddBirthday
    \/ ShowBirthday
    \/ AddRecord
    \/ DeleteRecord
    \/ Find
    \/ RecordAddPhone
    \/ RecordDeletePhone
    \/ RecordEditPhone

Spec == Init /\ [][Next]_vars

(***************************************************************************)
(* Claims about the classes, checked under Spec.                           *)
(***************************************************************************)
\* a string of 10 to 12 digits
TenToTwelveDigits(s) ==
    /\ Len(s) \in 10..12
    /\ \A i \in 1..Len(s) : s[i] \in {"0", "1", "2", "3", "4", "5", "6", "7", "8", "9"}

\* the number of records the directory holds for name
Count(d, name) == Cardinality({i \in 1..Len(d) : d[i].name = name})

\* the directories d and e hold the same record, or none, under every name but name
OthersSame(d, e, name) == \A m \in Names \ {name} : find(e, m) = find(d, m)

\* C1: after add(n, p) with a valid phone p, find(n) is a record named n whose
\* phones are exactly [p] and that has no birthday, whatever record n had
\* before; the directory holds one record for n; every record under another
\* name is unchanged.
C1_AddReplacesWhole ==
    [][(last'.op = "add_contact" /\ TenToTwelveDigits(last'.arg)) =>
          /\ last'.exc = "none"
          /\ find(data', last'.name) =
                <<[name |-> last'.name, phones |-> <<last'.arg>>, birthday |-> NoBirthday]>>
          /\ Count(data', last'.name) = 1
          /\ OthersSame(data, data', last'.name)]_vars

\* C1 witness: add("Ann", p) has overwritten a record of Ann while Bob holds a
\* record with a phone and a birthday.
C1_Witness ==
    /\ last.op = "add_contact" /\ last.name = Ann /\ last.had /\ last.exc = "none"
    /\ find(data, Ann) = <<[name |-> Ann, phones |-> <<last.arg>>, birthday |-> NoBirthday]>>
    /\ find(data, Bob) # <<>>
    /\ Len(find(data, Bob)[1].phones) = 1
    /\ find(data, Bob)[1].birthday.set

\* C5: change(name, new_phone) on an existing contact with at least one phone
\* puts new_phone at index 0 and leaves the phones at indexes 1 and up, the
\* name, the birthday and every other record unchanged.
C5_ChangeOnlyFirst ==
    [][(last'.op = "change_phone" /\ last'.had
          /\ Len(find(data, last'.name)[1].phones) >= 1) =>
          LET old == find(data, last'.name)[1]
              new == find(data', last'.name)
          IN  /\ last'.exc = "none"
              /\ new # <<>>
              /\ new[1].name = old.name
              /\ new[1].birthday = old.birthday
              /\ Len(new[1].phones) = Len(old.phones)
              /\ new[1].phones[1] = last'.arg
              /\ \A i \in 2..Len(old.phones) : new[1].phones[i] = old.phones[i]
              /\ OthersSame(data, data', last'.name)]_vars

\* C6: for a name with no record, change, show, add_birthday and show_birthday
\* print "Contact not found.", raise nothing whatever the other argument is,
\* and leave the directory unchanged; find returns None and raises nothing.
C6_AbsentNameNotFound ==
    [][(last'.name \notin Keys(data)) =>
          /\ (last'.op \in {"change_phone", "show_phone", "add_birthday", "show_birthday"} =>
                /\ last'.exc = "none"
                /\ last'.out = Msg("Contact not found.", <<>>, <<>>)
                /\ data' = data)
          /\ (last'.op = "find" =>
                /\ last'.exc = "none"
                /\ last'.ret = <<>>
                /\ data' = data)]_vars

\* C6 witness: add_birthday with an invalid date for a name that has no record,
\* in a directory that holds another record, has printed "Contact not found.".
C6_Witness ==
    /\ last.op = "add_birthday" /\ ~last.had /\ last.arg = Feb31
    /\ last.out = Msg("Contact not found.", <<>>, <<>>)
    /\ last.name \notin Keys(data)
    /\ data # <<>>

\* C7: after delete_record(name), find(name) is None; when name had no record
\* the call changes nothing and raises nothing; the records under every other
\* name are unchanged; and an add under the same name afterwards makes
\* find(name) the new record.
C7_DeleteThenFind ==
    [][(last'.op = "delete_record") =>
          /\ last'.exc = "none"
          /\ find(data', last'.name) = <<>>
          /\ (last'.name \notin Keys(data) => data' = data)
          /\ OthersSame(data, data', last'.name)
          /\ \A p \in ValidPhones :
                find(add_contact(data', last'.name, p).data, last'.name) =
                   <<[name |-> last'.name, phones |-> <<p>>, birthday |-> NoBirthday]>>
          /\ find(add_record(data', Record(last'.name)), last'.name) =
                <<Record(last'.name)>>]_vars

\* C7 witness: delete_record has removed the record of a name while the other
\* name keeps a record with a phone.
C7_Witness ==
    /\ last.op = "delete_record" /\ last.had
    /\ last.name \notin Keys(data)
    /\ \E m \in Keys(data) : data[IndexOf(data, m)].phones # <<>>

\* C8: every phone stored in every record of the directory is a string of 10
\* to 12 digits (no operation of Spec that stores a phone ends with an error
\* and a changed directory).
C8_StoredPhonesValid ==
    \A i \in 1..Len(data) : \A j \in 1..Len(data[i].phones) :
        TenToTwelveDigits(data[i].phones[j])

(***************************************************************************)
(* SpecLoop: main().  One action per branch of the command loop: the       *)
(* command line is read, stripped and lower-cased, the prompts of the      *)
(* branch are read and stripped, and the method of Contact is called; an   *)
(* exception that leaves the method leaves main.                           *)
(***************************************************************************)
CmdAdd == <<"a", "d", "d">>

CmdChange == <<"c", "h", "a", "n", "g", "e">>

CmdPhone == <<"p", "h", "o", "n", "e">>

CmdAddBirthday == <<"a", "d", "d", "-", "b", "i", "r", "t", "h", "d", "a", "y">>

CmdShowBirthday == <<"s", "h", "o", "w", "-", "b", "i", "r", "t", "h", "d", "a", "y">>

CmdBirthdays == <<"b", "i", "r", "t", "h", "d", "a", "y", "s">>

CmdAll == <<"a", "l", "l">>

CmdHello == <<"h", "e", "l", "l", "o">>

CmdClose == <<"c", "l", "o", "s", "e">>

CmdExit == <<"e", "x", "i", "t">>

\* the lines typed at "Enter command: "
CommandLines ==
    {CmdAdd, <<" ", "A", "d", "d", " ">>, CmdChange, <<"P", "H", "O", "N", "E">>,
     CmdPhone, CmdAddBirthday, CmdShowBirthday \o <<" ">>, CmdBirthdays, CmdAll,
     <<"H", "e", "l", "l", "o">>, CmdClose, CmdExit, <<" ", "E", "X", "I", "T">>,
     <<"h", "e", "l", "p">>, <<"a", "d", "d", " ", "A", "n", "n">>, <<>>}

\* the lines typed at the prompts
NameLines == {Ann, Bob \o <<" ">>}

PhoneLines == {PhoneA, <<" ">> \o PhoneB, PhoneAlpha}

BirthdayLines == {LeapDay, NoLeapDay, Feb31 \o <<" ">>, Unpadded, <<" ">>}

TodaySamples == {Date(2024, 2, 26), Date(2026, 11, 2)}

\* input("Enter command: ").strip().lower()
command(line) == lower(strip(line))

\* what main reads: the commands, and the names, phones and birthdays of the prompts
CommandsRead == {command(line) : line \in CommandLines}

NamesRead == {strip(line) : line \in NameLines}

PhonesRead == {strip(line) : line \in PhoneLines}

BirthdaysRead == {strip(line) : line \in BirthdayLines}

LoopInit ==
    /\ data = <<>>
    /\ pc = "loop"
    /\ last = Idle
    /\ today \in TodaySamples
    /\ typed = <<>>

\* the branch of cmd has called op(name, arg) with outcome r
Branch(cmd, op, name, arg, r) ==
    /\ data' = r.data
    /\ last' = [Called(op, name, arg, <<>>, r) EXCEPT !.cmd = cmd]
    /\ pc' = IF r.exc = "none" THEN "loop" ELSE "crashed"
    /\ UNCHANGED <<today, typed>>

LoopAdd ==
    /\ pc = "loop"
    /\ \E cmd \in CommandsRead :
          /\ cmd = CmdAdd
          /\ \E n \in NamesRead, p \in PhonesRead :
             Branch(cmd, "add_contact", n, p,
                    add_contact(data, n, p))

LoopChange ==
    /\ pc = "loop"
    /\ \E cmd \in CommandsRead :
          /\ cmd = CmdChange
          /\ \E n \in NamesRead, p \in PhonesRead :
             Branch(cmd, "change_phone", n, p,
                    change_phone(data, n, p))

LoopPhone ==
    /\ pc = "loop"
    /\ \E cmd \in CommandsRead :
          /\ cmd = CmdPhone
          /\ \E n \in NamesRead :
             Branch(cmd, "show_phone", n, <<>>, show_phone(data, n))

LoopAddBirthday ==
    /\ pc = "loop"
    /\ \E cmd \in CommandsRead :
          /\ cmd = CmdAddBirthday
          /\ \E n \in NamesRead, b \in BirthdaysRead :
             Branch(cmd, "add_birthday", n, b,
                    contact_add_birthday(data, n, b))

LoopShowBirthday ==
    /\ pc = "loop"
    /\ \E cmd \in CommandsRead :
          /\ cmd = CmdShowBirthday
          /\ \E n \in NamesRead :
             Branch(cmd, "show_birthday", n, <<>>,
                    show_birthday(data, n))

LoopBirthdays ==
    /\ pc = "loop"
    /\ \E cmd \in CommandsRead :
          /\ cmd = CmdBirthdays
          /\ Branch(cmd, "birthdays_this_week", <<>>, <<>>,
                    birthdays_this_week(data, today))

LoopAll ==
    /\ pc = "loop"
    /\ \E cmd \in CommandsRead :
          /\ cmd = CmdAll
          /\ Branch(cmd, "list_all_contacts", <<>>, <<>>, list_all_contacts(data))

LoopHello ==
    /\ pc = "loop"
    /\ \E cmd \in CommandsRead :
          /\ cmd = CmdHello
          /\ Branch(cmd, "hello", <<>>, <<>>, hello(data))

\* "close" or "exit": break
LoopExit ==
    /\ pc = "loop"
    /\ \E cmd \in CommandsRead :
          /\ cmd = CmdClose \/ cmd = CmdExit
          /\ pc' = "exited"
          /\ last' = [Idle EXCEPT !.op = "exit", !.cmd = cmd,
                                  !.out = Msg("Exiting program...", <<>>, <<>>)]
          /\ UNCHANGED <<data, today, typed>>

\* the else branch
LoopInvalid ==
    /\ pc = "loop"
    /\ \E cmd \in CommandsRead :
          /\ cmd \notin {CmdAdd, CmdChange, CmdPhone, CmdAddBirthday, CmdShowBirthday,
                                   CmdBirthdays, CmdAll, CmdHello, CmdClose, CmdExit}
          /\ last' = [Idle EXCEPT !.op = "invalid", !.cmd = cmd,
                                  !.out = Msg("Invalid command. Please try again.", <<>>, <<>>)]
          /\ UNCHANGED <<data, pc, today, typed>>

LoopNext ==
    \/ LoopAdd
    \/ LoopChange
    \/ LoopPhone
    \/ LoopAddBirthday
    \/ LoopShowBirthday
    \/ LoopBirthdays
    \/ LoopAll
    \/ LoopHello
    \/ LoopExit
    \/ LoopInvalid

SpecLoop == LoopInit /\ [][LoopNext]_vars

(***************************************************************************)
(* Claims about the command loop, checked under SpecLoop.                  *)
(***************************************************************************)
\* d is a day of month m of year y
RealDate(y, m, d) ==
    /\ y >= 1
    /\ m \in 1..12
    /\ d >= 1
    /\ d <= (IF m \in {1, 3, 5, 7, 8, 10, 12} THEN 31
             ELSE IF m # 2 THEN 30
             ELSE IF y % 4 = 0 /\ (y % 100 # 0 \/ y % 400 = 0) THEN 29 ELSE 28)

\* s reads DD.MM.YYYY
HasShapeDDMMYYYY(s) ==
    /\ Len(s) = 10
    /\ s[3] = "." /\ s[6] = "."
    /\ \A i \in {1, 2, 4, 5, 7, 8, 9, 10} : s[i] \in Digits

\* the day, month and year a DD.MM.YYYY string names
DateRead(s) ==
    [y |-> 1000 * DigitVal(s[7]) + 100 * DigitVal(s[8]) + 10 * DigitVal(s[9]) + DigitVal(s[10]),
     m |-> 10 * DigitVal(s[4]) + DigitVal(s[5]),
     d |-> 10 * DigitVal(s[1]) + DigitVal(s[2])]

\* s is a DD.MM.YYYY string of a real date
IsDDMMYYYY(s) ==
    HasShapeDDMMYYYY(s) /\ RealDate(DateRead(s).y, DateRead(s).m, DateRead(s).d)

\* C4: the loop stops only on the command "exit" or "close": a step that
\* leaves the loop is the step of one of these two commands.
C4_OnlyExitStops ==
    [][(pc = "loop" /\ pc' # "loop") => last'.cmd \in {CmdExit, CmdClose}]_vars

\* C9: the birthday of every record is not set or holds a real date;
\* add_birthday on an existing contact sets the birthday exactly when the
\* string is a DD.MM.YYYY string of a real date and otherwise raises and
\* keeps the directory; show_birthday on an existing contact prints a
\* DD.MM.YYYY date when the birthday is set and the no-birthday message
\* otherwise.
C9_BirthdayUnsetOrRealDate ==
    [][/\ \A i \in 1..Len(data') :
             \/ ~data'[i].birthday.set
             \/ /\ data'[i].birthday.hasDate
                /\ RealDate(data'[i].birthday.date.y, data'[i].birthday.date.m,
                            data'[i].birthday.date.d)
       /\ (last'.op = "add_birthday" /\ last'.had) =>
             IF IsDDMMYYYY(last'.arg)
             THEN /\ last'.exc = "none"
                  /\ find(data', last'.name)[1].birthday.set
                  /\ find(data', last'.name)[1].birthday.date = DateRead(last'.arg)
             ELSE /\ last'.exc = "ValueError"
                  /\ data' = data
       /\ (last'.op = "show_birthday" /\ last'.had) =>
             IF find(data, last'.name)[1].birthday.set
             THEN /\ last'.out.text = "Birthday for"
                  /\ IsDDMMYYYY(last'.out.value)
             ELSE last'.out.text = "No birthday specified for"]_vars

\* C10: every record of a directory the command loop reaches holds exactly
\* one phone, and no command ends with the IndexError of an empty phone list.
C10_OnePhonePerRecord ==
    /\ \A i \in 1..Len(data) : Len(data[i].phones) = 1
    /\ last.exc # "IndexError"

\* C10 witness: the loop has run change on an existing contact, with two
\* contacts in the directory, and goes on.
C10_Witness ==
    /\ pc = "loop"
    /\ last.op = "change_phone" /\ last.had /\ last.exc = "none"
    /\ Len(data) = 2
    /\ find(data, last.name)[1].phones = <<last.arg>>

(***************************************************************************)
(* SpecPhone: Phone(typed) for every string typed over Alphabet, up to     *)
(* MaxLen characters.                                                      *)
(***************************************************************************)
Alphabet == {"7", "x"}

Strings(n) == UNION {[1..k -> Alphabet] : k \in 0..n}

PhoneInit ==
    /\ data = <<>>
    /\ pc = "loop"
    /\ last = Idle
    /\ today = Date(2024, 2, 26)
    /\ typed \in Strings(MaxLen)

\* Phone(typed)
Construct ==
    /\ last' = [Idle EXCEPT !.op = "Phone", !.arg = typed, !.exc = Phone(typed).exc,
                            !.ret = IF Phone(typed).exc = "none"
                                    THEN <<Phone(typed).value>> ELSE <<>>]
    /\ UNCHANGED <<data, pc, today, typed>>

PhoneNext == Construct

SpecPhone == PhoneInit /\ [][PhoneNext]_vars

FirstToday == Date(2023, 12, 20)

\* the days from FirstToday to NumDays days after it
Todays ==
    {dt \in [y : FirstToday.y..(FirstToday.y + 2), m : 1..12, d : 1..31] :
        /\ ValidDate(dt.y, dt.m, dt.d)
        /\ ToOrdinal(dt) - ToOrdinal(FirstToday) \in 0..NumDays}

Feb29 == <<"2", "9", ".", "0", "2", ".", "2", "0", "0", "0">>

Dec31 == <<"3", "1", ".", "1", "2", ".", "1", "9", "9", "0">>

Jan03 == <<"0", "3", ".", "0", "1", ".", "1", "9", "9", "5">>

Feb24 == <<"2", "4", ".", "0", "2", ".", "1", "9", "8", "8">>

BirthdayDates == {Feb29, Dec31, Jan03, Feb24}

BirthdaysInit ==
    /\ data = <<>>
    /\ pc = "loop"
    /\ last = Idle
    /\ today \in Todays
    /\ typed = <<>>

WithContact ==
    \E n \in Names :
        /\ data' = add_contact(data, n, PhoneA).data
        /\ last' = Idle
        /\ UNCHANGED <<pc, today, typed>>

WithBirthday ==
    \E n \in Names, b \in BirthdayDates :
        /\ contact_add_birthday(data, n, b).exc = "none"
        /\ data' = contact_add_birthday(data, n, b).data
        /\ last' = Idle
        /\ UNCHANGED <<pc, today, typed>>

\* address_book.get_birthdays_per_week()
BirthdaysPerWeek ==
    /\ last' = Called("get_birthdays_per_week", <<>>, <<>>, <<>>,
                      Outcome(data, get_birthdays_per_week(data, today).exc, NoMsg,
                              get_birthdays_per_week(data, today).ret))
    /\ UNCHANGED <<data, pc, today, typed>>

BirthdaysNext ==
    \/ WithContact
    \/ WithBirthday
    \/ BirthdaysPerWeek

SpecBirthdays == BirthdaysInit /\ [][BirthdaysNext]_vars

\* the days from 0001-01-01 to the day d of month m of year y
DayNumber(y, m, d) ==
    LET Before(k) == {j \in 1..12 : j < k}
        Long == {1, 3, 5, 7, 8, 10, 12}
        Leap == y % 4 = 0 /\ (y % 100 # 0 \/ y % 400 = 0)
    IN  365 * (y - 1) + ((y - 1) \div 4) - ((y - 1) \div 100) + ((y - 1) \div 400)
          + 31 * Cardinality(Before(m) \cap Long)
          + 30 * Cardinality(Before(m) \ (Long \cup {2}))
          + (IF m > 2 THEN (IF Leap THEN 29 ELSE 28) ELSE 0)
          + d

\* the year of the next occurrence of the day d of month m on or after now:
\* this year's, or next year's when this year's is before now
OccurrenceYear(m, d, now) ==
    IF DayNumber(now.y, m, d) < DayNumber(now.y, now.m, now.d) THEN now.y + 1 ELSE now.y

\* how far ahead of now the next occurrence lies, in days
DaysAhead(m, d, now) ==
    DayNumber(OccurrenceYear(m, d, now), m, d) - DayNumber(now.y, now.m, now.d)

\* the bucket of the next occurrence: 0001-01-01 was a Monday
Bucket(m, d, now) ==
    LET k == (DayNumber(OccurrenceYear(m, d, now), m, d) - 1) % 7
    IN  IF k >= 5 THEN "Monday" ELSE WeekdayNames[k + 1]

\* the places of name in the mapping ret
Places(ret, name) ==
    {<<w, k>> \in (DOMAIN ret) \X (1..Cardinality(Names)) : k <= Len(ret[w]) /\ ret[w][k] = name}

\* the rest of C3, given that the call returned
C3_Mapping ==
    /\ \A w \in DOMAIN last.ret : last.ret[w] # <<>>
    /\ \A i \in 1..Len(data) :
          LET b == data[i].birthday
          IN  IF b.hasDate /\ DaysAhead(b.date.m, b.date.d, today) \in 0..7
              THEN \E k \in 1..Cardinality(Names) :
                      Places(last.ret, data[i].name) =
                         {<<Bucket(b.date.m, b.date.d, today), k>>}
              ELSE Places(last.ret, data[i].name) = {}

\* C3: get_birthdays_per_week completes, for every directory and every today,
\* and returns a mapping in which a record with a birthday appears iff the
\* next occurrence of its month and day lies in [today, today + 7 days], once,
\* in the bucket of that occurrence's weekday, or in "Monday" for a Saturday
\* or Sunday; records without a birthday appear nowhere; no bucket is empty.
C3_UpcomingBirthdays ==
    (last.op = "get_birthdays_per_week") => (last.exc = "none" /\ C3_Mapping)

\* what holds of the code: the same whenever the call returns
C3_WhenItReturns ==
    (last.op = "get_birthdays_per_week" /\ last.exc = "none") => C3_Mapping

====
